---- MODULE Spec2Model ----
(***************************************************************************)
(* The fraud-scoring pipeline of Panel.py: the customer_data and           *)
(* predictions tables, the module-global sqlite cursor, the fitted         *)
(* classifier and label encoders, predict_fraud and the two handlers that  *)
(* touch the tables (process_excel, on_submit).                            *)
(*                                                                         *)
(* Probabilities are exact decimals counted in units of 10^-7, so that     *)
(* 0.35 and 0.3500001 are different numbers; the rounding of IEEE doubles  *)
(* is not modelled.  Text is a sequence of one-character strings, so that  *)
(* lower() and strip() are computed and not assumed.                       *)
(***************************************************************************)
EXTENDS Integers, Sequences, FiniteSets, TLC

VARIABLES
    customer_data,  \* rows of table customer_data (the columns scoring reads)
    predictions,    \* rows of table predictions, in insertion order
    cursor,         \* rows the module-global cursor has still to hand out
    model,          \* predict_proba of the fitted classifier, as far as it has been asked
    frame,          \* the activation of predict_fraud the handler that ran last made, if any
    output,         \* the Markdown pane on_submit writes
    seen,           \* history: what each scored claim returned since the last upload
    verdicts,       \* history: how many calls of predict_fraud returned a verdict
    outage,         \* history: whether an INSERT or a commit of predict_fraud has failed
    threads         \* the activations of predict_fraud running on worker threads

vars == <<customer_data, predictions, cursor, model, frame, output, seen, verdicts, outage, threads>>

history == <<seen, verdicts, outage>>

\* ------------------------------------------------------------------ bounds

MaxPredictions == 2

\* ------------------------------------------------------------------ numbers

\* 1.0 in units of 10^-7: the upper clamp bound of min(1, prediction_prob).
One == 10000000
\* rules['high_amount']
HighAmountThreshold == 300000
HighAmountAdjustment == 1000000
\* rules['frequent_claims']
FrequentClaimsThreshold == 5
FrequentClaimsAdjustment == 1500000
\* rules['suspicious_diagnosis']['adjustment']
SuspiciousDiagnosisAdjustment == 2000000
\* rules['private_hospital']['adjustment']
PrivateHospitalAdjustment == 1000000
\* result = "Fraud" if prediction_prob > 0.35
FraudThreshold == 3500000

Min(a, b) == IF a < b THEN a ELSE b
Max(a, b) == IF a > b THEN a ELSE b

\* ------------------------------------------------------------------ text

UpperAlpha == <<"A","B","C","D","E","F","G","H","I","J","K","L","M",
                "N","O","P","Q","R","S","T","U","V","W","X","Y","Z">>
LowerAlpha == <<"a","b","c","d","e","f","g","h","i","j","k","l","m",
                "n","o","p","q","r","s","t","u","v","w","x","y","z">>
Digits == <<"0","1","2","3","4","5","6","7","8","9">>

LowerChar(c) ==
    IF \E i \in DOMAIN UpperAlpha : UpperAlpha[i] = c
    THEN LowerAlpha[CHOOSE i \in DOMAIN UpperAlpha : UpperAlpha[i] = c]
    ELSE c

\* str.lower()
Lower(s) == [i \in DOMAIN s |-> LowerChar(s[i])]

\* str.strip(), for the one kind of white space the inputs hold
RECURSIVE LStrip(_)
LStrip(s) == IF s # <<>> /\ Head(s) = " " THEN LStrip(Tail(s)) ELSE s
RECURSIVE RStrip(_)
RStrip(s) == IF s # <<>> /\ s[Len(s)] = " " THEN RStrip(SubSeq(s, 1, Len(s) - 1)) ELSE s
Strip(s) == RStrip(LStrip(s))

IsDigit(c) == \E i \in DOMAIN Digits : Digits[i] = c
DigitValue(c) == (CHOOSE i \in DOMAIN Digits : Digits[i] = c) - 1

\* float(text), for text that is a plain run of decimal digits between white
\* space; any other text here is one float() rejects with ValueError.
IsNumber(s) == Strip(s) # <<>> /\ \A i \in DOMAIN Strip(s) : IsDigit(Strip(s)[i])
RECURSIVE DigitsValue(_)
DigitsValue(s) ==
    IF s = <<>> THEN 0 ELSE 10 * DigitsValue(SubSeq(s, 1, Len(s) - 1)) + DigitValue(s[Len(s)])
ParseFloat(s) == DigitsValue(Strip(s))

Cancer        == <<"C","a","n","c","e","r">>
CANCER        == <<"C","A","N","C","E","R">>
HeartDisease  == <<"H","e","a","r","t"," ","D","i","s","e","a","s","e">>
Flu           == <<"F","l","u">>
Malaria       == <<"M","a","l","a","r","i","a">>
Private       == <<"P","r","i","v","a","t","e">>
Government    == <<"G","o","v","e","r","n","m","e","n","t">>
Charity       == <<"C","h","a","r","i","t","y">>
cancer        == <<"c","a","n","c","e","r">>
heart_disease == <<"h","e","a","r","t"," ","d","i","s","e","a","s","e">>
private       == <<"p","r","i","v","a","t","e">>

\* ------------------------------------------------------------------ encoders

\* LabelEncoder.classes_ of the two fitted encoders, in sorted order.  The
\* training file is not part of the repository; these are the labels it is
\* taken to hold.
DiagnosisClasses == <<Cancer, Flu, HeartDisease>>
HospitalTypeClasses == <<Government, Private>>

\* LabelEncoder.transform([label])[0]: the label's index in classes_, and a
\* ValueError for a label that is not there.
Known(classes, label) == \E i \in DOMAIN classes : classes[i] = label
Transform(classes, label) == (CHOOSE i \in DOMAIN classes : classes[i] = label) - 1

\* Encode with an unseen label given a code of its own, after the fitted ones
EncodeUnseenAsNew(classes, label) ==
    IF Known(classes, label) THEN Transform(classes, label) ELSE Len(classes)

\* the try/except around each transform in preprocess_input
Encode(classes, label) == IF Known(classes, label) THEN Transform(classes, label) ELSE 0

preprocess_input(claim_amount, age, diagnosis, hospital_type, previous_claims) ==
    <<claim_amount, age, Encode(DiagnosisClasses, diagnosis),
      Encode(HospitalTypeClasses, hospital_type), previous_claims>>

\* ------------------------------------------------------------------ rules

\* HighAmountRule firing at the threshold itself
HighAmountRuleInclusive(p, claim_amount) ==
    IF claim_amount >= HighAmountThreshold THEN p + HighAmountAdjustment ELSE p

HighAmountRule(p, claim_amount) ==
    IF claim_amount > HighAmountThreshold THEN p + HighAmountAdjustment ELSE p

FrequentClaimsRule(p, previous_claims) ==
    IF previous_claims > FrequentClaimsThreshold THEN p + FrequentClaimsAdjustment ELSE p

\* SuspiciousDiagnosisRule comparing the diagnosis as typed
SuspiciousDiagnosisRuleCaseSensitive(p, diagnosis) ==
    IF diagnosis \in {cancer, heart_disease}
    THEN p + SuspiciousDiagnosisAdjustment ELSE p

SuspiciousDiagnosisRule(p, diagnosis) ==
    IF Lower(diagnosis) \in {cancer, heart_disease}
    THEN p + SuspiciousDiagnosisAdjustment ELSE p

PrivateHospitalRule(p, hospital_type) ==
    IF Lower(hospital_type) = private THEN p + PrivateHospitalAdjustment ELSE p

\* the four if-statements of predict_fraud, in the order the code runs them
ApplyRules(p, claim_amount, previous_claims, diagnosis, hospital_type) ==
    PrivateHospitalRule(
        SuspiciousDiagnosisRule(
            FrequentClaimsRule(
                HighAmountRule(p, claim_amount),
                previous_claims),
            diagnosis),
        hospital_type)

\* Clamp without its upper bound
ClampBelowOnly(p) == Max(0, p)

\* prediction_prob = max(0, min(1, prediction_prob))
Clamp(p) == Max(0, Min(One, p))

\* Verdict with the threshold itself counted as fraud
VerdictAtThreshold(p) == IF p >= FraudThreshold THEN "Fraud" ELSE "Legitimate"

\* result = "Fraud" if prediction_prob > 0.35 else "Legitimate"
Verdict(p) == IF p > FraudThreshold THEN "Fraud" ELSE "Legitimate"

\* ------------------------------------------------------------------ tables

\* LatestProfile with the name left out of the WHERE clause
LatestProfileAnyName(user_id, customer_id, name) ==
    LET match == {r \in customer_data : r.user_id = user_id /\ r.customer_id = customer_id}
    IN  IF match = {} THEN <<>>
        ELSE LET top == CHOOSE r \in match : \A q \in match : q.date <= r.date
             IN  <<[age |-> top.age, previous_claims |-> top.previous_claims]>>

\* LatestProfile with the customer's audited claims counted as previous claims
LatestProfileCountingAudits(user_id, customer_id, name) ==
    LET match == {r \in customer_data :
                    r.user_id = user_id /\ r.customer_id = customer_id /\ r.name = name}
        audited == {i \in DOMAIN predictions :
                      /\ predictions[i].user_id = user_id
                      /\ predictions[i].customer_id = customer_id
                      /\ predictions[i].name = name}
    IN  IF match = {} THEN <<>>
        ELSE LET top == CHOOSE r \in match : \A q \in match : q.date <= r.date
             IN  <<[age |-> top.age,
                    previous_claims |-> top.previous_claims + Cardinality(audited)]>>

\* SELECT age, previous_claims FROM customer_data
\*  WHERE user_id=? AND customer_id=? AND name=? ORDER BY date DESC LIMIT 1:
\* the rows the cursor holds after the execute, none or one.  Dates are day
\* numbers whose text sorts as they do; among rows of one date the engine
\* returns one of them, the same one whenever the table is the same.
LatestProfile(user_id, customer_id, name) ==
    LET match == {r \in customer_data :
                    r.user_id = user_id /\ r.customer_id = customer_id /\ r.name = name}
    IN  IF match = {} THEN <<>>
        ELSE LET top == CHOOSE r \in match : \A q \in match : q.date <= r.date
             IN  <<[age |-> top.age, previous_claims |-> top.previous_claims]>>

\* InsertPrediction keeping one row per table: the new row replaces the last
InsertPredictionOverLast(rows, row) ==
    IF rows = <<>> THEN <<row>> ELSE [rows EXCEPT ![Len(rows)] = row]

\* INSERT INTO predictions (...) VALUES (...): one more row, the others as they were
InsertPrediction(rows, row) == Append(rows, row)

\* the except branch around model.predict_proba: a failed call counts as 0.0
BaseProbability(out) == IF out.ok THEN out.p ELSE 0

\* predict_proba answers the same for the same feature vector: the classifier
\* is loaded once and never refitted.  Its answer to a vector is fixed the
\* first time the vector is asked.
Asked(features, out) == features \in DOMAIN model => out = model[features]
Remember(features, out) == IF features \in DOMAIN model THEN model ELSE (features :> out) @@ model

ProfileNotFound == "Error: Customer profile not found"

NoFeatures == <<0, 0, 0, 0, 0>>
NoFrame ==
    [status |-> "none", user_id |-> 0, customer_id |-> <<>>, name |-> <<>>,
     diagnosis |-> <<>>, hospital_type |-> <<>>, claim_amount |-> 0,
     profile |-> <<>>, features |-> NoFeatures, model_ok |-> TRUE, base |-> 0,
     adjusted |-> 0, result |-> "", probability |-> 0, sink |-> "ok"]

Args(f) == <<f.user_id, f.customer_id, f.name, f.diagnosis, f.hospital_type, f.claim_amount>>

\* The locals of one run of predict_fraud that found `profile`, with the
\* classifier answering `out`.
Scored(user_id, customer_id, name, diagnosis, hospital_type, claim_amount, profile, out) ==
    LET age == profile.age
        previous_claims == profile.previous_claims
        features == preprocess_input(claim_amount, age, diagnosis, hospital_type, previous_claims)
        base == BaseProbability(out)
        adjusted == ApplyRules(base, claim_amount, previous_claims, diagnosis, hospital_type)
        prediction_prob == Clamp(adjusted)
    IN  [status |-> "returned", user_id |-> user_id, customer_id |-> customer_id,
         name |-> name, diagnosis |-> diagnosis, hospital_type |-> hospital_type,
         claim_amount |-> claim_amount, profile |-> <<profile>>, features |-> features,
         model_ok |-> out.ok, base |-> base, adjusted |-> adjusted,
         result |-> Verdict(prediction_prob), probability |-> prediction_prob, sink |-> "ok"]

NotFound(user_id, customer_id, name, diagnosis, hospital_type, claim_amount) ==
    [NoFrame EXCEPT !.status = "returned", !.user_id = user_id, !.customer_id = customer_id,
                    !.name = name, !.diagnosis = diagnosis, !.hospital_type = hospital_type,
                    !.claim_amount = claim_amount, !.result = ProfileNotFound]

\* the tuple bound to the INSERT's placeholders
PredictionRow(f) ==
    [user_id |-> f.user_id, customer_id |-> f.customer_id, name |-> f.name,
     claim_amount |-> f.claim_amount, age |-> f.profile[1].age, diagnosis |-> f.diagnosis,
     hospital_type |-> f.hospital_type, previous_claims |-> f.profile[1].previous_claims,
     prediction |-> f.result, probability |-> f.probability]

\* What the store does with the INSERT of one call: take it, or fail it
\* (cursor.execute raises).  A commit after an INSERT that was taken succeeds.
SinkModes == {"ok", "insert_fails"}

\* predict_fraud run from its first line to its return or raise, with no other
\* code running in between.  predict_proba answers one of `answers` (the one
\* it gave before, for a feature vector it has seen) and the store does one of
\* SinkModes with the INSERT and the commit.
predict_fraud(user_id, customer_id, name, diagnosis, hospital_type, claim_amount, answers) ==
    LET selected == LatestProfile(user_id, customer_id, name)
    IN  IF selected = <<>>
        THEN /\ frame' = NotFound(user_id, customer_id, name, diagnosis, hospital_type, claim_amount)
             /\ cursor' = <<>>
             /\ UNCHANGED <<predictions, model>>
        ELSE \E out \in answers, sink \in SinkModes :
             LET f == Scored(user_id, customer_id, name, diagnosis, hospital_type,
                             claim_amount, Head(selected), out)
             IN  /\ Asked(f.features, out)
                 /\ model' = Remember(f.features, out)
                 /\ cursor' = <<>>
                 /\ predictions' = IF sink = "insert_fails" THEN predictions
                                   ELSE InsertPrediction(predictions, PredictionRow(f))
                 /\ frame' = IF sink = "ok" THEN f
                             ELSE [f EXCEPT !.status = "raised", !.sink = sink]

\* ------------------------------------------------------------------ handlers

\* f"{probability:.1%}": the probability in tenths of a percent, halves to even
FormatPercent(p) ==
    LET q == p \div 10000
        r == p % 10000
    IN  IF r > 5000 \/ (r = 5000 /\ q % 2 = 1) THEN q + 1 ELSE q

NoOutput == [kind |-> "none", object |-> "", status |-> "", probability |-> 0, color |-> ""]
ErrorOutput(text) == [NoOutput EXCEPT !.kind = "error", !.object = text, !.color = "red"]
ResultOutput(result, probability) ==
    [kind |-> "result", object |-> "Prediction Results", status |-> result,
     probability |-> FormatPercent(probability),
     color |-> IF result = "Legitimate" THEN "green" ELSE "red"]

\* the call returned "Fraud" or "Legitimate" to its caller
IsVerdict(f) == f.status = "returned" /\ f.result # ProfileNotFound

\* history: one more return of the claim `f` was called with
Returned(f) ==
    IF f.status # "returned" THEN seen
    ELSE LET a == Args(f)
             old == IF a \in DOMAIN seen THEN seen[a] ELSE {}
         IN  (a :> (old \cup {<<f.result, f.probability>>})) @@ seen

\* on_submit, the Predict button's handler.  `login` is what authenticate
\* returns for the login widgets' values (user_id 0 for None), `w` the values
\* of the form's widgets.
on_submit(login, w, answers) ==
    /\ UNCHANGED <<customer_data, threads>>
    /\ IF ~login.authenticated
       THEN /\ output' = ErrorOutput("Error: Please login first")
            /\ frame' = NoFrame
            /\ UNCHANGED <<predictions, cursor, model, history>>
       ELSE IF \/ Strip(w.customer_id) = <<>> \/ Strip(w.name) = <<>>
               \/ Strip(w.diagnosis) = <<>> \/ w.hospital_type = <<>>
               \/ Strip(w.claim_amount) = <<>>
       THEN /\ output' = ErrorOutput("Error: Missing fields")
            /\ frame' = NoFrame
            /\ UNCHANGED <<predictions, cursor, model, history>>
       ELSE IF ~IsNumber(w.claim_amount)
       THEN /\ output' = ErrorOutput("Error: Claim amount must be a number")
            /\ frame' = NoFrame
            /\ UNCHANGED <<predictions, cursor, model, history>>
       ELSE /\ predict_fraud(login.user_id, Strip(w.customer_id), Strip(w.name),
                             Strip(w.diagnosis), w.hospital_type,
                             ParseFloat(w.claim_amount), answers)
            /\ seen' = Returned(frame')
            /\ verdicts' = IF IsVerdict(frame') THEN verdicts + 1 ELSE verdicts
            /\ outage' = (outage \/ frame'.status = "raised")
            /\ output' = IF frame'.status = "raised"
                         THEN ErrorOutput("Error: exception")
                         ELSE IF frame'.result = ProfileNotFound
                         THEN ErrorOutput(frame'.result)
                         ELSE ResultOutput(frame'.result, frame'.probability)

\* The rows of `rows` up to the first one whose cells int() or float() reject.
RECURSIVE Convertible(_)
Convertible(rows) ==
    IF rows = <<>> \/ ~Head(rows).valid THEN <<>>
    ELSE <<Head(rows)>> \o Convertible(Tail(rows))

\* INSERT INTO customer_data, for one row of the uploaded sheet
HistoryRow(user_id, row) ==
    [user_id |-> user_id, customer_id |-> Strip(row.customer_id), date |-> row.date,
     age |-> row.age, name |-> Strip(row.name), previous_claims |-> row.previous_claims]

\* process_excel, the Upload button's handler: what it does to the tables (the
\* text it shows is not kept).  A row that fails to convert ends the loop with
\* the rows before it already inserted on the connection.
process_excel(login, file) ==
    /\ UNCHANGED <<predictions, cursor, model, output, threads>>
    /\ frame' = NoFrame
    /\ IF ~file.selected \/ login.user_id = 0 \/ ~file.columns_ok
       THEN UNCHANGED <<customer_data, history>>
       ELSE LET done == Convertible(file.rows)
                new == {HistoryRow(login.user_id, done[i]) : i \in DOMAIN done}
            IN  /\ customer_data' = customer_data \cup new
                /\ seen' = IF new = {} THEN seen ELSE << >>
                /\ UNCHANGED <<verdicts, outage>>

\* ------------------------------------------------------------------ inputs

C001 == <<"C","0","0","1">>
C002 == <<"C","0","0","2">>
Asha == <<"A","s","h","a">>
AshaPadded == <<"A","s","h","a"," ">>
Ravi == <<"R","a","v","i">>
Amount5000 == <<"5","0","0","0">>
Amount300000 == <<"3","0","0","0","0","0">>
Amount300001 == <<"3","0","0","0","0","1">>
Amount350000 == <<" ","3","5","0","0","0","0">>
AmountWords == <<"l","o","t","s">>

\* what authenticate can return: no such user, a wrong password, a login
NoUser == [user_id |-> 0, authenticated |-> FALSE]
WrongPassword == [user_id |-> 1, authenticated |-> FALSE]
User1 == [user_id |-> 1, authenticated |-> TRUE]
User2 == [user_id |-> 2, authenticated |-> TRUE]

Form(customer_id, name, diagnosis, hospital_type, claim_amount) ==
    [customer_id |-> customer_id, name |-> name, diagnosis |-> diagnosis,
     hospital_type |-> hospital_type, claim_amount |-> claim_amount]

Press(login, w) == [login |-> login, w |-> w]

\* the Predict presses of the pipeline runs
Submissions ==
    {Press(User1, Form(C001, AshaPadded, Cancer, Private, Amount350000)),
     Press(User2, Form(C002, Asha, Flu, Government, Amount5000)),
     Press(User2, Form(C001, Asha, Cancer, Private, Amount350000)),
     Press(User1, Form(C001, Ravi, Cancer, Private, Amount350000)),
     Press(User1, Form(C001, Asha, <<" ">>, Private, Amount350000)),
     Press(User1, Form(C001, Asha, Cancer, Private, AmountWords)),
     Press(WrongPassword, Form(C001, Asha, Cancer, Private, Amount350000))}

SheetRow(customer_id, date, age, name, previous_claims, valid) ==
    [customer_id |-> customer_id, date |-> date, age |-> age, name |-> name,
     previous_claims |-> previous_claims, valid |-> valid]

Sheet(selected, columns_ok, rows) ==
    [selected |-> selected, columns_ok |-> columns_ok, rows |-> rows]

Send(login, file) == [login |-> login, file |-> file]

\* the Upload presses of the pipeline runs
Uploads ==
    {Send(User1, Sheet(FALSE, TRUE, <<>>)),
     Send(NoUser, Sheet(TRUE, TRUE, <<SheetRow(C001, 1, 40, Asha, 1, TRUE)>>)),
     Send(User1, Sheet(TRUE, FALSE, <<>>)),
     Send(WrongPassword, Sheet(TRUE, TRUE, <<SheetRow(C001, 1, 40, Asha, 1, TRUE)>>)),
     Send(User1, Sheet(TRUE, TRUE, <<SheetRow(C001, 2, 41, AshaPadded, 6, TRUE)>>)),
     Send(User2, Sheet(TRUE, TRUE, <<SheetRow(C002, 1, 30, Asha, 6, TRUE),
                                     SheetRow(C002, 2, 0, Asha, 0, FALSE)>>))}

Answer(ok, p) == [ok |-> ok, p |-> p]
Answers == {Answer(TRUE, 500000), Answer(TRUE, 3000000)}

\* ------------------------------------------------------------------ one call at a time

NoThreads == << >>

Init ==
    /\ customer_data = {}
    /\ predictions = <<>>
    /\ cursor = <<>>
    /\ model = << >>
    /\ frame = NoFrame
    /\ output = NoOutput
    /\ seen = << >>
    /\ verdicts = 0
    /\ outage = FALSE
    /\ threads = NoThreads

Upload == \E u \in Uploads : process_excel(u.login, u.file)

Submit ==
    /\ Len(predictions) < MaxPredictions
    /\ \E s \in Submissions : on_submit(s.login, s.w, Answers)

Next == Upload \/ Submit

Spec == Init /\ [][Next]_vars

\* ------------------------------------------------------------------ one call, any claim

\* One customer with one history row, and one press of Predict: the claim's
\* fields, the customer's previous claims and the classifier's answer range
\* over the cases of the rules, the clamp and the threshold.
RulePreviousClaims == {0, 5, 6}

RuleDiagnoses == {Cancer, CANCER, HeartDisease, Flu, Malaria}
RuleHospitalTypes == {Private, Government, Charity}
RuleAmounts == {Amount5000, Amount300000, Amount300001, Amount350000}

RuleSubmissions ==
    {Press(User1, Form(C001, Asha, d, h, a)) :
        d \in RuleDiagnoses, h \in RuleHospitalTypes, a \in RuleAmounts}

\* 0, 0.02, 0.05, 0.25, 0.2500001, 0.9, 1.0, and a call that raises (its p is
\* what the local would hold had the except branch not set it)
RuleAnswers ==
    {Answer(TRUE, 0), Answer(TRUE, 200000), Answer(TRUE, 500000), Answer(TRUE, 2500000),
     Answer(TRUE, 2500001), Answer(TRUE, 9000000), Answer(TRUE, One), Answer(FALSE, One)}

InitRules ==
    /\ \E n \in RulePreviousClaims :
          customer_data = {HistoryRow(1, SheetRow(C001, 1, 40, Asha, n, TRUE))}
    /\ predictions = <<>>
    /\ cursor = <<>>
    /\ model = << >>
    /\ frame = NoFrame
    /\ output = NoOutput
    /\ seen = << >>
    /\ verdicts = 0
    /\ outage = FALSE
    /\ threads = NoThreads

SubmitOnce ==
    /\ frame = NoFrame
    /\ \E s \in RuleSubmissions : on_submit(s.login, s.w, RuleAnswers)

SpecRules == InitRules /\ [][SubmitOnce]_vars

\* ------------------------------------------------------------------ properties of one call

\* The rule table of the specification, read off the call's arguments and the
\* profile it used (probabilities in units of 10^-7).
AmountDelta(f) == IF f.claim_amount > 300000 THEN 1000000 ELSE 0
ClaimsDelta(f) == IF f.profile[1].previous_claims > 5 THEN 1500000 ELSE 0
DiagnosisDelta(f) ==
    IF f.diagnosis \in {Cancer, CANCER, cancer, HeartDisease, heart_disease} THEN 2000000 ELSE 0
HospitalDelta(f) == IF f.hospital_type \in {Private, private} THEN 1000000 ELSE 0
RuleDeltas(f) == AmountDelta(f) + ClaimsDelta(f) + DiagnosisDelta(f) + HospitalDelta(f)

LastPrediction == predictions[Len(predictions)]

(* C1: every probability predict_fraud returns, and every probability in the
   predictions table, lies in [0,1]; a base of 0.9 with all four rules firing
   gives exactly 1.0. *)
C1_ProbabilityInUnitInterval ==
    /\ frame.status = "returned" => frame.probability >= 0 /\ frame.probability <= 10000000
    /\ \A i \in DOMAIN predictions :
          predictions[i].probability >= 0 /\ predictions[i].probability <= 10000000
    /\ (IsVerdict(frame) /\ frame.base = 9000000 /\ RuleDeltas(frame) = 5500000)
          => frame.probability = 10000000

C1_Witness ==
    /\ IsVerdict(frame) /\ frame.base = 9000000 /\ frame.adjusted = 14500000
    /\ frame.probability = 10000000
    /\ predictions # <<>> /\ LastPrediction.probability = 10000000

(* C2: a call that returns a verdict returns Fraud exactly when the clamped
   probability is above 0.35 (0.35 itself is Legitimate, 0.3500001 is Fraud),
   and the audit row holds the verdict and probability that were returned. *)
C2_VerdictIffAboveThreshold ==
    IsVerdict(frame) =>
        /\ frame.result \in {"Fraud", "Legitimate"}
        /\ frame.result = "Fraud" <=> frame.probability > 3500000
        /\ frame.probability = 3500000 => frame.result = "Legitimate"
        /\ frame.probability = 3500001 => frame.result = "Fraud"
        /\ predictions # <<>>
        /\ LastPrediction.prediction = frame.result
        /\ LastPrediction.probability = frame.probability

C2_Witness ==
    /\ IsVerdict(frame) /\ frame.probability = 3500000 /\ frame.result = "Legitimate"
    /\ LastPrediction.prediction = "Legitimate"

(* C3: the probability before clamping is the base probability plus the
   deltas of exactly the rules whose predicate holds; applying the rules in
   the opposite order gives the same number; with no rule firing the
   probability is the base probability (0.02 stays 0.02, Legitimate). *)
C3_RulesAdditive ==
    frame.profile # <<>> =>
        /\ frame.adjusted = frame.base + RuleDeltas(frame)
        /\ frame.adjusted =
              HighAmountRule(
                  FrequentClaimsRule(
                      SuspiciousDiagnosisRule(
                          PrivateHospitalRule(frame.base, frame.hospital_type),
                          frame.diagnosis),
                      frame.profile[1].previous_claims),
                  frame.claim_amount)
        /\ RuleDeltas(frame) = 0 => frame.probability = frame.base
        /\ (RuleDeltas(frame) = 0 /\ frame.base = 200000)
              => frame.probability = 200000 /\ frame.result = "Legitimate"

C3_Witness ==
    /\ IsVerdict(frame) /\ frame.base = 2500000
    /\ frame.claim_amount = 300001 /\ frame.profile[1].previous_claims = 6
    /\ frame.diagnosis = HeartDisease /\ frame.hospital_type = Private
    /\ frame.adjusted = 8000000

\* the example of C4: 350000, Cancer, Private, 6 previous claims, base 0.05
C4_Case ==
    /\ IsVerdict(frame) /\ frame.model_ok /\ frame.base = 500000
    /\ frame.claim_amount = 350000 /\ frame.diagnosis = Cancer
    /\ frame.hospital_type = Private /\ frame.profile[1].previous_claims = 6

(* C4 as stated: the example's four rules add 0.60, the adjusted probability
   is 0.65, and the call returns Fraud with probability 0.65. *)
C4_Original ==
    C4_Case =>
        /\ frame.adjusted - frame.base = 6000000
        /\ frame.adjusted = 6500000
        /\ frame.result = "Fraud" /\ frame.probability = 6500000

(* C4, amended: the example's four rules add 0.55, the adjusted probability
   is 0.60, and the call returns Fraud with probability 0.60. *)
C4_Amended ==
    C4_Case =>
        /\ frame.adjusted - frame.base = 5500000
        /\ frame.adjusted = 6000000
        /\ frame.result = "Fraud" /\ frame.probability = 6000000

C4_Witness == C4_Case /\ LastPrediction.probability = 6000000

Unseen(classes, label) == \A i \in DOMAIN classes : classes[i] # label

(* C9: for a call whose customer profile exists, a diagnosis or hospital type
   the encoder has not seen is encoded as 0 and a failing classifier counts
   as base probability 0.0; the rules are still applied, and with the store
   taking the INSERT the call returns Fraud or Legitimate and the audit row
   is written. *)
C9_FailOpen ==
    frame.profile # <<>> =>
        /\ Unseen(DiagnosisClasses, frame.diagnosis) => frame.features[3] = 0
        /\ Unseen(HospitalTypeClasses, frame.hospital_type) => frame.features[4] = 0
        /\ ~frame.model_ok => frame.base = 0
        /\ frame.adjusted = frame.base + RuleDeltas(frame)
        /\ frame.sink = "ok" =>
              /\ frame.status = "returned"
              /\ frame.result \in {"Fraud", "Legitimate"}
              /\ Len(predictions) = 1
              /\ LastPrediction.prediction = frame.result
              /\ LastPrediction.diagnosis = frame.diagnosis

C9_Witness ==
    /\ IsVerdict(frame) /\ ~frame.model_ok
    /\ frame.diagnosis = Malaria /\ frame.hospital_type = Charity
    /\ frame.claim_amount = 350000 /\ frame.adjusted = 1000000
    /\ Len(predictions) = 1 /\ LastPrediction.prediction = "Legitimate"

\* ------------------------------------------------------------------ properties of the pipeline

NoMatch(f) ==
    ~ \E r \in customer_data :
          r.user_id = f.user_id /\ r.customer_id = f.customer_id /\ r.name = f.name

(* C5: a call for which no customer_data row matches user, customer id and
   name returns the profile-not-found error with probability 0.0, asks the
   classifier nothing, and leaves the predictions table as it was. *)
C5_NotFoundWritesNothing ==
    [][(frame'.status # "none" /\ NoMatch(frame')) =>
          /\ frame'.status = "returned"
          /\ frame'.result = "Error: Customer profile not found"
          /\ frame'.probability = 0
          /\ frame'.profile = <<>>
          /\ model' = model
          /\ predictions' = predictions]_vars

C5_Witness ==
    /\ frame.status = "returned" /\ frame.result = ProfileNotFound /\ frame.name = Ravi
    /\ customer_data # {} /\ Len(predictions) >= 1
    /\ output.kind = "error"

(* C6: when the INSERT into predictions fails after the verdict was computed,
   the call still returns the verdict to on_submit, which shows it. *)
C6_VerdictSurvivesSinkFailure ==
    frame.sink # "ok" =>
        /\ frame.status = "returned"
        /\ output.kind = "result" /\ output.status = frame.result

\* the audit row a call that returned a verdict must have written
AuditRowOf(f) ==
    [user_id |-> f.user_id, customer_id |-> f.customer_id, name |-> f.name,
     claim_amount |-> f.claim_amount, age |-> f.profile[1].age, diagnosis |-> f.diagnosis,
     hospital_type |-> f.hospital_type, previous_claims |-> f.profile[1].previous_claims,
     prediction |-> f.result, probability |-> f.probability]

(* C7: as long as no INSERT has failed, the predictions table has as many
   rows as calls have returned a verdict; a call that returns a verdict
   appends one row with its scope, claim fields, profile fields, verdict and
   probability; no step changes or removes a row that is there. *)
C7_OneRecordPerVerdict ==
    /\ [](~outage => Len(predictions) = verdicts)
    /\ [][/\ Len(predictions') >= Len(predictions)
          /\ SubSeq(predictions', 1, Len(predictions)) = predictions
          /\ IsVerdict(frame') => predictions' = predictions \o <<AuditRowOf(frame')>>
          /\ ~IsVerdict(frame') => predictions' = predictions]_vars

C7_Witness ==
    /\ ~outage /\ verdicts = 2 /\ Len(predictions) = 2
    /\ predictions[1].customer_id = C001 /\ predictions[2].customer_id = C002
    /\ IsVerdict(frame) /\ predictions[2] = AuditRowOf(frame)

(* C10: a scoring call leaves customer_data as it was, and between two
   uploads every return of the same claim under the same scope carries the
   same verdict and probability, whatever other calls ran in between. *)
C10_ScoringIsPure ==
    /\ [](\A a \in DOMAIN seen : Cardinality(seen[a]) = 1)
    /\ [][frame'.status # "none" => customer_data' = customer_data]_vars

C10_Witness ==
    /\ Cardinality(DOMAIN seen) >= 2
    /\ Len(predictions) = 2
    /\ predictions[1] = predictions[2]
    /\ IsVerdict(frame) /\ Args(frame) \in DOMAIN seen

\* ------------------------------------------------------------------ calls on two threads

\* The handlers above run one at a time, as on a server with one event loop
\* thread.  Here: two calls of predict_fraud on worker threads, sharing the
\* module-global conn and cursor (check_same_thread=False).  Each call of a
\* cursor or connection method is one step; a thread's locals are its own.
Threads == {1, 2}

Start(user_id, customer_id, name, diagnosis, hospital_type, claim_amount) ==
    [pc |-> "start",
     f |-> [NoFrame EXCEPT !.user_id = user_id, !.customer_id = customer_id, !.name = name,
                           !.diagnosis = diagnosis, !.hospital_type = hospital_type,
                           !.claim_amount = claim_amount]]

FirstCalls ==
    {Start(1, C001, Asha, d, Private, 350000) : d \in {Cancer, Flu}}
SecondCalls ==
    {Start(2, C002, Asha, Flu, Government, 5000), Start(1, C001, Ravi, Flu, Government, 5000)}

InitThreads ==
    /\ customer_data = {HistoryRow(1, SheetRow(C001, 1, 40, Asha, 1, TRUE)),
                        HistoryRow(1, SheetRow(C001, 2, 41, Asha, 6, TRUE)),
                        HistoryRow(2, SheetRow(C002, 1, 30, Asha, 0, TRUE))}
    /\ predictions = <<>>
    /\ cursor = <<>>
    /\ model = << >>
    /\ frame = NoFrame
    /\ output = NoOutput
    /\ seen = << >>
    /\ verdicts = 0
    /\ outage = FALSE
    /\ \E a \in FirstCalls, b \in SecondCalls : threads = (1 :> a) @@ (2 :> b)

\* cursor.execute("SELECT age, previous_claims ...")
ExecuteSelect(t) ==
    /\ threads[t].pc = "start"
    /\ cursor' = LatestProfile(threads[t].f.user_id, threads[t].f.customer_id, threads[t].f.name)
    /\ threads' = [threads EXCEPT ![t].pc = "selected"]
    /\ UNCHANGED <<customer_data, predictions, model, frame, output, history>>

\* profile = cursor.fetchone(), and the return when there is none
FetchOne(t) ==
    /\ threads[t].pc = "selected"
    /\ IF cursor = <<>>
       THEN /\ threads' = [threads EXCEPT ![t] =
                  [pc |-> "done",
                   f |-> NotFound(@.f.user_id, @.f.customer_id, @.f.name, @.f.diagnosis,
                                  @.f.hospital_type, @.f.claim_amount)]]
            /\ cursor' = cursor
       ELSE /\ threads' = [threads EXCEPT ![t].pc = "fetched", ![t].f.profile = <<Head(cursor)>>]
            /\ cursor' = Tail(cursor)
    /\ UNCHANGED <<customer_data, predictions, model, frame, output, history>>

\* from preprocess_input to the return: the score, the INSERT, the commit
ScoreAndStore(t) ==
    /\ threads[t].pc = "fetched"
    /\ \E out \in Answers, sink \in SinkModes :
          LET a == threads[t].f
              f == Scored(a.user_id, a.customer_id, a.name, a.diagnosis, a.hospital_type,
                          a.claim_amount, a.profile[1], out)
          IN  /\ Asked(f.features, out)
              /\ model' = Remember(f.features, out)
              /\ cursor' = <<>>
              /\ predictions' = IF sink = "insert_fails" THEN predictions
                                ELSE InsertPrediction(predictions, PredictionRow(f))
              /\ threads' = [threads EXCEPT ![t] =
                    IF sink = "ok" THEN [pc |-> "done", f |-> f]
                    ELSE [pc |-> "done", f |-> [f EXCEPT !.status = "raised", !.sink = sink]]]
    /\ UNCHANGED <<customer_data, frame, output, history>>

NextThreads == \E t \in Threads : ExecuteSelect(t) \/ FetchOne(t) \/ ScoreAndStore(t)

SpecThreads == InitThreads /\ [][NextThreads]_vars

(* C8: under every interleaving of two concurrent calls for different
   customers, a call that has fetched holds the profile of its own (scope,
   customer id, name), and reports not-found only when its own customer has
   no profile. *)
C8_CallsDoNotInterfere ==
    \A t \in DOMAIN threads :
        threads[t].pc \in {"fetched", "done"} =>
            LET f == threads[t].f
                own == {r \in customer_data :
                          r.user_id = f.user_id /\ r.customer_id = f.customer_id /\ r.name = f.name}
            IN  /\ own = {} <=> f.result = "Error: Customer profile not found"
                /\ f.profile # <<>> =>
                      \E r \in own : /\ \A q \in own : q.date <= r.date
                                     /\ f.profile[1].age = r.age
                                     /\ f.profile[1].previous_claims = r.previous_claims

====
